---- MODULE Spec2Model ----
(***************************************************************************)
(* Model of split_modules.py: a script that cuts three object literals out *)
(* of advanced-filter-search.js, wraps each one in an IIFE template and    *)
(* writes it to its own file.                                              *)
(*                                                                         *)
(* Text is modelled as a sequence of units.  A unit is a record            *)
(* [t |-> kind, v |-> value] that stands for one literal piece of text:    *)
(*   txt/U   "const Utils = {"          txt/S   "const StateManager = {"   *)
(*   txt/R   "const URLManager = {"     txt/E   "};"                       *)
(*   txt/NL  "\n"                       txt/SP  " "                        *)
(*   txt/X   one byte of any other text                                    *)
(*   txt/PHX "// Module exports will be added here" (no 4-space indent)    *)
(*   txt/PAD a filler of 9827 bytes of other text                          *)
(*   tpl/..  the fixed pieces of the wrapper template                      *)
(*   ph      "    // Module exports will be added here"                    *)
(*   name/n, dephdr, dep/n, export/n  the generated lines                  *)
(* Offsets are counted in units, 0-based as in Python; sizes in bytes.     *)
(***************************************************************************)
EXTENDS Integers, Sequences, FiniteSets, TLC

VARIABLES files, files0, content, out, pc, i, exs, written,
          start_pattern, end_pattern, extracted

vars == <<files, files0, content, out, pc, i, exs, written,
          start_pattern, end_pattern, extracted>>

(* ------------------------------ bounds --------------------------------- *)

\* longest input text, in units
MaxLen == 4

\* longest text handed to extract_section / to the loop body on their own
MaxBody == 3

(* ------------------------------- text ---------------------------------- *)

T(v) == [t |-> "txt", v |-> v]

Tpl(v) == [t |-> "tpl", v |-> v]

Placeholder == [t |-> "ph", v |-> "exports"]

NameLen(n) ==
  CASE n = "Utils" -> 5
    [] n = "StateManager" -> 12
    [] n = "URLManager" -> 10
    [] n = "CONSTANTS" -> 9
    [] n = "Logger" -> 6

TxtBytes(v) ==
  CASE v = "U" -> 15
    [] v = "S" -> 22
    [] v = "R" -> 20
    [] v = "E" -> 2
    [] v = "NL" -> 1
    [] v = "SP" -> 1
    [] v = "X" -> 1
    [] v = "PHX" -> 36
    [] v = "PAD" -> 9827

TplBytes(v) ==
  CASE v = "head" -> 32
    [] v = "iife" -> 66
    [] v = "nl" -> 1
    [] v = "window" -> 110
    [] v = "global" -> 82
    [] v = "tail" -> 59

UnitBytes(u) ==
  CASE u.t = "txt" -> TxtBytes(u.v)
    [] u.t = "tpl" -> TplBytes(u.v)
    [] u.t = "ph" -> 40
    [] u.t = "name" -> NameLen(u.v)
    [] u.t = "dephdr" -> 19
    [] u.t = "dep" -> 31 + 2 * NameLen(u.v)
    [] u.t = "export" -> 19 + 2 * NameLen(u.v)

RECURSIVE Bytes(_)
Bytes(s) == IF s = <<>> THEN 0 ELSE UnitBytes(Head(s)) + Bytes(Tail(s))

IsSpace(u) == u \in {T("NL"), T("SP")}

RECURSIVE SeqsUpTo(_, _)
SeqsUpTo(S, n) ==
  IF n = 0 THEN {<<>>}
  ELSE LET shorter == SeqsUpTo(S, n - 1)
       IN  shorter \cup {Append(s, u) : s \in {x \in shorter : Len(x) = n - 1}, u \in S}

(* ---------------------------- file system ------------------------------ *)

NoFile == [exists |-> FALSE, data |-> <<>>]

File(d) == [exists |-> TRUE, data |-> d]

input_file == "advanced-filter-search.js"

OutputFiles == {"afs-utils.js", "afs-state.js", "afs-url.js"}

Paths == {input_file} \cup OutputFiles

\* what an earlier run may have left in an output file
OldModule == <<Tpl("head"), T("X"), Tpl("tail")>>

exists(fs, p) == fs[p].exists

read_file(fs, p) == fs[p].data

write_file(fs, p, data) == [fs EXCEPT ![p] = File(data)]

\* os.path.getsize(p) / 1024, kept exact as the number of 1/1024 KB (bytes)
get_file_size_kb(fs, p) == Bytes(fs[p].data)

(* ------------------------------ re.search ------------------------------ *)

\* A pattern is  [anchor |-> BOOLEAN, lit |-> unit]:
\*   anchor = FALSE   the escaped literal alone, e.g.  const Utils = \{
\*   anchor = TRUE    ^\s* followed by the literal, e.g.  ^\s*\};
Pattern(a, l) == [anchor |-> a, lit |-> l]

NoMatch == [found |-> FALSE, start |-> 0, end |-> 0]

\* variant: ^ as under re.MULTILINE, also matching right after each newline
CaretPositions_Multiline(c) == {0} \cup {k \in 1 .. Len(c) : c[k] = T("NL")}

\* offsets at which ^ matches: re.search is called without re.MULTILINE,
\* so only the very beginning of the string
CaretPositions(c) == {0}

\* offsets at which a match of p may begin
StartPositions(p, c) ==
  IF p.anchor THEN CaretPositions(c) \cap (0 .. Len(c)) ELSE 0 .. Len(c)

\* end offsets of the matches of p that begin at offset pos
\* (\s* takes whitespace units, then the literal must follow)
MatchEnds(p, c, pos) ==
  IF p.anchor
  THEN {j + 1 : j \in {k \in pos .. Len(c) - 1 :
                         /\ \A w \in pos + 1 .. k : IsSpace(c[w])
                         /\ c[k + 1] = p.lit}}
  ELSE IF pos < Len(c) /\ c[pos + 1] = p.lit THEN {pos + 1} ELSE {}

Min(S) == CHOOSE x \in S : \A y \in S : x <= y

Max(S) == CHOOSE x \in S : \A y \in S : x >= y

\* re.search(p, c): the leftmost match, \s* greedy
Search(p, c) ==
  LET starts == {pos \in StartPositions(p, c) : MatchEnds(p, c, pos) # {}}
  IN  IF starts = {} THEN NoMatch
      ELSE LET s0 == Min(starts)
           IN  [found |-> TRUE, start |-> s0, end |-> Max(MatchEnds(p, c, s0))]

\* c[a:b] for 0 <= a, 0 <= b
PySlice(c, a, b) ==
  LET hi == IF b > Len(c) THEN Len(c) ELSE b
  IN  IF hi <= a THEN <<>> ELSE SubSeq(c, a + 1, hi)

(* --------------------------- extract_section --------------------------- *)

None == [some |-> FALSE, v |-> <<>>]

Some(v) == [some |-> TRUE, v |-> v]

\* variant: a missing end match is taken to mean "up to the end of the text"
extract_section_EndDefault(c, sp, ep) ==
  LET start_match == Search(sp, c)
      end_match == Search(ep, c)
  IN  IF ~start_match.found THEN None
      ELSE Some(PySlice(c, start_match.start,
                        IF end_match.found THEN end_match.end ELSE Len(c)))

extract_section(c, sp, ep) ==
  LET start_match == Search(sp, c)
      end_match == Search(ep, c)
  IN  IF ~start_match.found \/ ~end_match.found THEN None
      ELSE Some(PySlice(c, start_match.start, end_match.end))

\* variant: the test "extracted is not None"
Truthy_NotNone(x) == x.some

\* truth value of an optional string: None and "" are false
Truthy(x) == x.some /\ x.v # <<>>

(* ------------------------- create_module_wrapper ----------------------- *)

RECURSIVE DepLines(_)
DepLines(deps) ==
  IF deps = <<>> THEN <<>>
  ELSE <<[t |-> "dep", v |-> Head(deps)]>> \o DepLines(Tail(deps))

\* deps_code: empty unless there are dependencies
DepsCode(deps) ==
  IF deps = <<>> THEN <<>>
  ELSE <<[t |-> "dephdr", v |-> "Dependencies"]>> \o DepLines(deps)

create_module_wrapper(name, body, deps) ==
  <<Tpl("head"), [t |-> "name", v |-> name], Tpl("iife")>>
    \o DepsCode(deps)
    \o <<Tpl("nl")>>
    \o body
    \o <<Tpl("window"), Placeholder, Tpl("global"), Placeholder, Tpl("tail")>>

(* ----------------------------- main: exports --------------------------- *)

\* the line "    window.AFS.<n> = <n>;" without its newline
ExportLine(n) == [t |-> "export", v |-> n]

RECURSIVE ExportsCode(_)
ExportsCode(names) ==
  IF names = <<>> THEN <<>>
  ELSE <<ExportLine(Head(names)), T("NL")>> \o ExportsCode(Tail(names))

\* str.rstrip(): drop trailing whitespace
RECURSIVE RStrip(_)
RStrip(s) ==
  IF s # <<>> /\ IsSpace(s[Len(s)]) THEN RStrip(SubSeq(s, 1, Len(s) - 1)) ELSE s

\* str.replace(old, new) for a one-unit old: every occurrence is replaced
RECURSIVE Replace(_, _, _)
Replace(s, old, new) ==
  IF s = <<>> THEN <<>>
  ELSE (IF Head(s) = old THEN new ELSE <<Head(s)>>) \o Replace(Tail(s), old, new)

\* lines 109-123: the text written for a section
ModuleContent(section, body) ==
  Replace(create_module_wrapper(section.name, body, section.dependencies),
          Placeholder,
          RStrip(ExportsCode(section.exports)))

(* ---------------------------- main: sections --------------------------- *)

sections ==
  << [name |-> "Utils",
      start |-> Pattern(FALSE, T("U")),
      end |-> Pattern(TRUE, T("E")),
      file |-> "afs-utils.js",
      exports |-> <<"Utils">>,
      dependencies |-> <<>>],
     [name |-> "StateManager",
      start |-> Pattern(FALSE, T("S")),
      end |-> Pattern(TRUE, T("E")),
      file |-> "afs-state.js",
      exports |-> <<"StateManager">>,
      dependencies |-> <<"CONSTANTS", "Logger">>],
     [name |-> "URLManager",
      start |-> Pattern(FALSE, T("R")),
      end |-> Pattern(TRUE, T("E")),
      file |-> "afs-url.js",
      exports |-> <<"URLManager">>,
      dependencies |-> <<"CONSTANTS", "Utils", "StateManager", "Logger">>] >>

(* ------------------------------ main: report --------------------------- *)

Line(kind, file, size) == [kind |-> kind, file |-> file, size |-> size]

ErrorLine == Line("error", input_file, 0)

Header(fs) ==
  << Line("title", "", 0), Line("sep", "", 0), Line("input", input_file, 0),
     Line("size", input_file, get_file_size_kb(fs, input_file)),
     Line("blank", "", 0) >>

\* variant: the comparison size_kb < 10
Status_Strict(size_kb) == IF size_kb < 10 * 1024 THEN "pass" ELSE "warn"

\* "pass" if size_kb <= 10 else "warn", size_kb counted in bytes
Status(size_kb) == IF size_kb <= 10 * 1024 THEN "pass" ELSE "warn"

(* ---------------------------- main: loop body -------------------------- *)

\* variant: a section that is not found has its stale output file removed
Body_Cleanup(section, ex) ==
  IF Truthy(ex)
  THEN LET fs1 == write_file(files, section.file, ModuleContent(section, ex.v))
           size_kb == get_file_size_kb(fs1, section.file)
       IN  /\ files' = fs1
           /\ written' = written \cup {section.file}
           /\ out' = Append(out, Line(Status(size_kb), section.file, size_kb))
  ELSE /\ out' = Append(out, Line("notfound", section.file, 0))
       /\ files' = [files EXCEPT ![section.file] = NoFile]
       /\ UNCHANGED written

\* lines 108-132 for one section and the value extract_section gave
Body(section, ex) ==
  IF Truthy(ex)
  THEN LET fs1 == write_file(files, section.file, ModuleContent(section, ex.v))
           size_kb == get_file_size_kb(fs1, section.file)
       IN  /\ files' = fs1
           /\ written' = written \cup {section.file}
           /\ out' = Append(out, Line(Status(size_kb), section.file, size_kb))
  ELSE /\ out' = Append(out, Line("notfound", section.file, 0))
       /\ UNCHANGED <<files, written>>

(* ------------------------------- inputs -------------------------------- *)

InputAlphabet == {T("U"), T("S"), T("R"), T("E"), T("NL"), T("SP"), T("X")}

Block(u) == <<u, T("NL"), T("SP"), T("X"), T("NL"), T("E"), T("NL")>>

\* "const Utils = {\n  a: 1\n};\n" followed by the StateManager and
\* URLManager blocks of the same shape
ScenarioInput == Block(T("U")) \o Block(T("S")) \o Block(T("R"))

Inputs == SeqsUpTo(InputAlphabet, MaxLen) \cup {ScenarioInput}

\* file systems main may start in: the input file absent or holding any
\* input text, the output files absent or left over from an earlier run
InitialFiles ==
  { [p \in Paths |-> IF p = input_file THEN inp ELSE old] :
      inp \in {NoFile} \cup {File(c) : c \in Inputs},
      old \in {NoFile, File(OldModule)} }

ExtractAlphabet == {T("U"), T("E"), T("NL"), T("X")}

ExtractStarts == {Pattern(FALSE, T("U"))}

ExtractEnds == {Pattern(TRUE, T("E")), Pattern(FALSE, T("E"))}

BodyAlphabet == {T("U"), T("E"), T("NL"), T("X"), T("PAD"), T("PHX")}

(* -------------------------------- main --------------------------------- *)

Init ==
  /\ files0 \in InitialFiles
  /\ files = files0
  /\ content = <<>>
  /\ out = <<>>
  /\ pc = "start"
  /\ i = 1
  /\ exs = <<>>
  /\ written = {}
  /\ start_pattern = Pattern(FALSE, T("U"))
  /\ end_pattern = Pattern(TRUE, T("E"))
  /\ extracted = None

\* variant: the error is printed but main does not return
MainMissing_NoReturn ==
  /\ pc = "start"
  /\ ~exists(files, input_file)
  /\ out' = <<ErrorLine>>
  /\ pc' = "loop"
  /\ UNCHANGED <<files, files0, content, i, exs, written,
                 start_pattern, end_pattern, extracted>>

\* lines 67-69: the input file is missing
MainMissing ==
  /\ pc = "start"
  /\ ~exists(files, input_file)
  /\ out' = <<ErrorLine>>
  /\ pc' = "done"
  /\ UNCHANGED <<files, files0, content, i, exs, written,
                 start_pattern, end_pattern, extracted>>

\* lines 71-104: read the input and print the report header
MainRead ==
  /\ pc = "start"
  /\ exists(files, input_file)
  /\ content' = read_file(files, input_file)
  /\ out' = Header(files)
  /\ pc' = "loop"
  /\ UNCHANGED <<files, files0, i, exs, written,
                 start_pattern, end_pattern, extracted>>

\* variant: the first section that is not found ends the run
ProcessSection_Break ==
  /\ pc = "loop"
  /\ i <= Len(sections)
  /\ LET section == sections[i]
         ex == extract_section(content, section.start, section.end)
     IN  /\ exs' = Append(exs, ex)
         /\ Body(section, ex)
         /\ pc' = IF Truthy(ex) THEN "loop" ELSE "done"
  /\ i' = i + 1
  /\ UNCHANGED <<files0, content, start_pattern, end_pattern, extracted>>

\* lines 106-132: one iteration of the loop over sections
ProcessSection ==
  /\ pc = "loop"
  /\ i <= Len(sections)
  /\ LET section == sections[i]
         ex == extract_section(content, section.start, section.end)
     IN  /\ exs' = Append(exs, ex)
         /\ Body(section, ex)
  /\ i' = i + 1
  /\ UNCHANGED <<files0, content, pc, start_pattern, end_pattern, extracted>>

\* the loop is exhausted and main returns
MainReturn ==
  /\ pc = "loop"
  /\ i > Len(sections)
  /\ pc' = "done"
  /\ UNCHANGED <<files, files0, content, out, i, exs, written,
                 start_pattern, end_pattern, extracted>>

Next == MainMissing \/ MainRead \/ ProcessSection \/ MainReturn

Spec == Init /\ [][Next]_vars

\* main is straight-line sequential code: it keeps running until it returns
LiveSpec == Spec /\ WF_vars(Next)

(* ----------------------- extract_section on its own -------------------- *)

InitExtract ==
  /\ content \in SeqsUpTo(ExtractAlphabet, MaxLen)
  /\ start_pattern \in ExtractStarts
  /\ end_pattern \in ExtractEnds
  /\ extracted = None
  /\ pc = "extract"
  /\ files0 = [p \in Paths |-> NoFile]
  /\ files = files0
  /\ out = <<>>
  /\ i = 1
  /\ exs = <<>>
  /\ written = {}

ExtractStep ==
  /\ pc = "extract"
  /\ extracted' = extract_section(content, start_pattern, end_pattern)
  /\ pc' = "extracted"
  /\ UNCHANGED <<files, files0, content, out, i, exs, written,
                 start_pattern, end_pattern>>

NextExtract == ExtractStep

SpecExtract == InitExtract /\ [][NextExtract]_vars

(* -------------------------- loop body on its own ----------------------- *)

InitBody ==
  /\ extracted \in {None} \cup {Some(b) : b \in SeqsUpTo(BodyAlphabet, MaxBody)}
  /\ i \in 1 .. Len(sections)
  /\ files0 \in { [p \in Paths |-> IF p = input_file THEN File(<<>>) ELSE old] :
                    old \in {NoFile, File(OldModule)} }
  /\ files = files0
  /\ content = <<>>
  /\ out = <<>>
  /\ pc = "body"
  /\ exs = <<>>
  /\ written = {}
  /\ start_pattern = Pattern(FALSE, T("U"))
  /\ end_pattern = Pattern(TRUE, T("E"))

BodyStep ==
  /\ pc = "body"
  /\ Body(sections[i], extracted)
  /\ pc' = "body_done"
  /\ UNCHANGED <<files0, content, i, exs, start_pattern, end_pattern, extracted>>

NextBody == BodyStep

SpecBody == InitBody /\ [][NextBody]_vars

(* ------------------------------ properties ----------------------------- *)

InputPresent == files0[input_file].exists

\* the report after its five header lines
StatusLines == IF Len(out) > 5 THEN SubSeq(out, 6, Len(out)) ELSE <<>>

StartMatch(k) == Search(sections[k].start, content)

EndMatch(k) == Search(sections[k].end, content)

BothMatch(k) == StartMatch(k).found /\ EndMatch(k).found

Processed == 1 .. Len(exs)

Count(s, u) == Cardinality({n \in 1 .. Len(s) : s[n] = u})

Contains(s, sub) ==
  \E a \in 0 .. Len(s) - Len(sub) : SubSeq(s, a + 1, a + Len(sub)) = sub

\* C1: in a run of main a section's file is written only if both its start
\* and its end pattern match the input; when either has no match,
\* extract_section gives None, the section is reported as not found and its
\* file is left as it was.
C1_OutputOnlyIfBothMatch ==
  \A k \in Processed :
    LET f == sections[k].file
    IN  /\ f \in written => BothMatch(k)
        /\ ~BothMatch(k) =>
             /\ exs[k] = None
             /\ f \notin written
             /\ files[f] = files0[f]
             /\ StatusLines[k].kind = "notfound"

C1_Witness ==
  /\ pc = "done"
  /\ \E k \in Processed :
       /\ StartMatch(k).found
       /\ ~EndMatch(k).found
       /\ exs[k] = None
       /\ sections[k].file \notin written

\* C2: whenever the start pattern matches and some match of the end pattern
\* begins at or after the end of the start match, extract_section returns
\* the text from the beginning of the earliest start match to the end of the
\* earliest such end match.
C2_EarliestQualifyingEnd ==
  pc = "extracted" =>
    LET sm == Search(start_pattern, content)
        qualifying == {pos \in StartPositions(end_pattern, content) :
                         /\ MatchEnds(end_pattern, content, pos) # {}
                         /\ sm.found
                         /\ pos >= sm.end}
    IN  qualifying # {} =>
          extracted = Some(PySlice(content, sm.start,
                             Max(MatchEnds(end_pattern, content, Min(qualifying)))))

\* C3: for the input made of the Utils, StateManager and URLManager blocks,
\* each closed by a line "};", a finished run has written all three files,
\* each holding its own block and its export line, and has printed three
\* pass lines.
C3_ScenarioWritesThreeModules ==
  (pc = "done" /\ files0[input_file] = File(ScenarioInput)) =>
    /\ Len(StatusLines) = Len(sections)
    /\ \A k \in 1 .. Len(sections) :
         LET f == sections[k].file
         IN  /\ files[f].exists
             /\ f \in written
             /\ Contains(files[f].data, Block(sections[k].start.lit))
             /\ Count(files[f].data, ExportLine(sections[k].name)) >= 1
             /\ StatusLines[k].kind = "pass"

\* C4: when a section's end pattern matches only before the start pattern's
\* match, the extracted span is not a negative-length or partial span (it is
\* empty), the section is reported as not found and no file is written.
C4_EndBeforeStartIsNotFound ==
  \A k \in Processed :
    (BothMatch(k) /\ EndMatch(k).end <= StartMatch(k).start) =>
      /\ exs[k] = Some(<<>>)
      /\ StatusLines[k].kind = "notfound"
      /\ sections[k].file \notin written
      /\ files[sections[k].file] = files0[sections[k].file]

C4_Witness ==
  /\ pc = "done"
  /\ \E k \in Processed :
       /\ BothMatch(k)
       /\ EndMatch(k).end < StartMatch(k).start
       /\ StatusLines[k].kind = "notfound"
       /\ files0[sections[k].file].exists

C6_MissingInputHalts ==
  ~InputPresent =>
    /\ pc \in {"start", "done"}
    /\ exs = <<>>
    /\ written = {}
    /\ files = files0
    /\ pc = "done" => out = <<ErrorLine>>

C6_Witness ==
  /\ ~InputPresent
  /\ pc = "done"
  /\ out = <<ErrorLine>>
  /\ \A f \in OutputFiles : files[f] = File(OldModule)

C7_StatusLinesInOrder ==
  InputPresent =>
    /\ pc = "loop" => Len(StatusLines) = i - 1
    /\ pc = "done" => Len(StatusLines) = Len(sections)
    /\ Len(StatusLines) = Len(exs)
    /\ \A k \in 1 .. Len(StatusLines) :
         /\ StatusLines[k].file = sections[k].file
         /\ StatusLines[k].kind \in {"pass", "warn", "notfound"}
         /\ ~Truthy(exs[k]) => StatusLines[k].kind = "notfound"

\* C7: a section that is not found does not stop the run: with the input
\* present the report always holds one status line per section processed so
\* far, in the configured order, a finished run holds exactly three, and
\* every run eventually returns.
C7_NotFoundNeverStopsRun == [](C7_StatusLinesInOrder) /\ <>(pc = "done")

C7_Witness ==
  /\ InputPresent
  /\ pc = "done"
  /\ Len(StatusLines) = 3
  /\ StatusLines[1].kind = "notfound"
  /\ StatusLines[3].file = "afs-url.js"

\* C8: when extraction succeeded the module is written whatever its size,
\* and the status line is pass exactly when the written file has at most
\* 10240 bytes and warn otherwise, never not-found.
C8_OversizedStillWritten ==
  (pc = "body_done" /\ Truthy(extracted)) =>
    LET f == sections[i].file
        line == out[Len(out)]
    IN  /\ f \in written
        /\ files[f] = File(ModuleContent(sections[i], extracted.v))
        /\ Len(out) = 1
        /\ line.file = f
        /\ line.kind = "pass" <=> Bytes(files[f].data) <= 10240
        /\ line.kind = "warn" <=> Bytes(files[f].data) > 10240

C8_Witness ==
  /\ pc = "body_done"
  /\ Truthy(extracted)
  /\ sections[i].file \in written
  /\ out[Len(out)].kind = "warn"
  /\ Bytes(files[sections[i].file].data) = 10241

\* C9: a run changes no file it does not write: the input file keeps its
\* contents, the output file of a section reported as not found keeps what an
\* earlier run left in it, and a file that is written holds exactly the new
\* module text.
C9_UnwrittenFilesUnchanged ==
  /\ files[input_file] = files0[input_file]
  /\ \A f \in OutputFiles : f \notin written => files[f] = files0[f]
  /\ \A k \in Processed :
       LET f == sections[k].file
       IN  /\ StatusLines[k].kind = "notfound" => files[f] = files0[f]
           /\ f \in written =>
                files[f] = File(ModuleContent(sections[k], exs[k].v))

C9_Witness ==
  /\ pc = "done"
  /\ InputPresent
  /\ \E k \in Processed :
       /\ StatusLines[k].kind = "notfound"
       /\ files[sections[k].file] = File(OldModule)

\* C10: with the configured patterns the end pattern can match only at
\* offset 0, so its match ends at or before any start match; extract_section
\* gives None or the empty string, and for every input no output file is
\* written and every status line is "Section not found".
C10_NothingIsEverWritten ==
  /\ written = {}
  /\ \A f \in OutputFiles : files[f] = files0[f]
  /\ \A k \in Processed :
       /\ EndMatch(k).found => EndMatch(k).start = 0
       /\ BothMatch(k) => EndMatch(k).end <= StartMatch(k).start
       /\ exs[k] \in {None, Some(<<>>)}
       /\ StatusLines[k].kind = "notfound"
  /\ (pc = "done" /\ InputPresent) => Len(StatusLines) = Len(sections)

C10_Witness ==
  /\ pc = "done"
  /\ files0[input_file] = File(ScenarioInput)
  /\ \A k \in 1 .. Len(sections) : StatusLines[k].kind = "notfound"
  /\ written = {}

====
